---- MODULE Spec2Model ----
(***************************************************************************)
(* Model of the learning-pipelines orchestrator (src/main.py) and of the   *)
(* stage functions it drives (src/app/process_srt.py, generate_srt.py,     *)
(* ai_summarizer.py, md2docx.py).                                          *)
(*                                                                         *)
(* A run is one invocation of main(): the command line fixes input_path,   *)
(* output_dir and steps, the file system fixes which files exist.  Every   *)
(* loop iteration of a stage is one action; the outcome of each external   *)
(* call (transcriber, file read, chat endpoint, pandoc) is chosen by the   *)
(* environment.                                                            *)
(*                                                                         *)
(* Paths are records [dirs, stem, ext]: the directory components, the      *)
(* file name without extension and the extension.  <<>> as a directory     *)
(* stands for Python's None / empty output_dir.                            *)
(***************************************************************************)
EXTENDS Integers, Sequences, FiniteSets, TLC

\* Largest number of files present under the input directory at start.
MaxFiles == 3

InputRoot == <<"in">>
VideoExts == {"mp4", "avi", "mov", "mkv"}

P(dirs, stem, ext) == [dirs |-> dirs, stem |-> stem, ext |-> ext]
NoPath == P(<<>>, "", "")

\* The files a run may find under the input directory, in the order
\* os.walk yields them (the root's files before those of sub/).
WalkOrder ==
    << P(<<"in">>, "a", "mp4"), P(<<"in">>, "a", "srt"), P(<<"in">>, "a", "txt"),
       P(<<"in">>, "a", "md"), P(<<"in">>, "a", "docx"),
       P(<<"in", "sub">>, "b", "mp4"), P(<<"in", "sub">>, "b", "srt"),
       P(<<"in", "sub">>, "b", "txt"), P(<<"in", "sub">>, "b", "md"),
       P(<<"in", "sub">>, "b", "docx") >>

Range(s) == {s[i] : i \in 1..Len(s)}
InitialFiles == {f \in Range(WalkOrder) : f.ext \in {"mp4", "srt", "txt", "md"}}

\* -s/--steps: nargs="+" over four choices; membership is all the code reads.
StepLists ==
    { <<"srt2txt">>, <<"txt2md">>, <<"md2docx">>, <<"all">>,
      <<"srt2txt", "txt2md">>, <<"txt2md", "srt2txt">>,
      <<"srt2txt", "md2docx">>, <<"md2docx", "srt2txt">>,
      <<"txt2md", "md2docx">>, <<"md2docx", "txt2md">>,
      <<"md2docx", "txt2md", "srt2txt">>, <<"srt2txt", "txt2md", "md2docx">>,
      <<"md2docx", "all">>, <<"all", "srt2txt">> }

\* -o/--output: absent, a directory beside the input, the input itself, or
\* a directory one level further down than the input.
OutputDirs == { <<>>, <<"out">>, <<"in">>, <<"res", "out">> }

\* -i/--input: the directory, or one file (which may or may not exist).
InputFiles == { P(<<"in">>, "a", "srt"), P(<<"in">>, "a", "txt"),
                P(<<"in">>, "a", "md"), P(<<"in">>, "a", "mp4") }

VARIABLES
    input_path,     \* [isdir, path]: args.input
    output_dir,     \* args.output (<<>> when not given)
    steps,          \* args.steps
    fs0,            \* the files that existed when the run started
    fs,             \* the files that exist
    pc,             \* position of the run
    idx,            \* index of the running stage's loop
    srt_files,      \* convert_srt_to_txt_files: srt_files
    video_files,    \* convert_srt_to_txt_files: video_files
    txt_files,      \* process_files: txt_files
    md_files,       \* process_files: md_files
    log,            \* the external calls and file writes made, in order
    reports,        \* the messages shown to the user
    raised,         \* the exception that escaped process_files, or "none"
    exitCode        \* the process's exit code, -1 while running

\* The state of a run of the pipeline.
pipeVars == << input_path, output_dir, steps, fs0, fs, pc, idx, srt_files,
               video_files, txt_files, md_files, log, reports, raised,
               exitCode >>

VARIABLES
    seconds,        \* format_timestamp: its argument, in whole milliseconds
    stamp           \* format_timestamp: the string returned, <<>> before the call

\* The state of a call of format_timestamp.
timeVars == << seconds, stamp >>

\* No call of format_timestamp is under way.
TimeIdle == seconds = 0 /\ stamp = <<>>

VARIABLES
    segments,       \* transcribe_to_srt: result["segments"], [start, end, text]
    blocks,         \* the blocks an SRT file that was not transcribed is made of
    trailing,       \* the newlines that follow the last block's text in that file
    srt_origin,     \* "whisper": the file is written from segments; "file": it exists
    srt_content,    \* the content of the SRT file
    caller,         \* who calls convert_srt_to_txt: "pipeline" or "script"
    srt2txt_config, \* config.get_config("processing", "srt2txt")
    text_content,   \* convert_srt_to_txt: text_content
    output_content, \* convert_srt_to_txt: output_content, written to the TXT file
    srt_pc          \* "segments", "file" (the SRT file exists) or "done"

\* The state of a transcription and of an extraction.
srtVars == << segments, blocks, trailing, srt_origin, srt_content, caller,
              srt2txt_config, text_content, output_content, srt_pc >>

\* No transcription and no extraction is under way.
SrtIdle ==
    /\ segments = <<>>
    /\ blocks = <<>>
    /\ trailing = 0
    /\ srt_origin = "file"
    /\ srt_content = <<>>
    /\ caller = "pipeline"
    /\ srt2txt_config = [extract_text_only |-> TRUE, combine_sentences |-> TRUE]
    /\ text_content = <<>>
    /\ output_content = <<>>
    /\ srt_pc = "idle"

VARIABLES
    DEFAULT_CONFIG, \* config.py: DEFAULT_CONFIG
    config,         \* config.py: config
    shared,         \* the key paths at which config holds DEFAULT_CONFIG's own dict
    config_file,    \* the document in config.yaml, CfgAbsent when there is no file
    writable,       \* whether config.yaml can be opened for writing
    call,           \* the last call made: "load", "get" or "update"
    config_before,  \* config when that call was made
    returned,       \* what that call returned
    updates         \* the number of update_config calls made

\* The state of config.py.
cfgVars == << DEFAULT_CONFIG, config, shared, config_file, writable, call,
              config_before, returned, updates >>

\* A value of a document: a dictionary (its items a function of its keys)
\* or a scalar. CfgNone is None, CfgAbsent stands for what is not there.
CfgDict(items) == [kind |-> "dict", val |-> "", items |-> items]
CfgVal(val) == [kind |-> "val", val |-> val, items |-> <<>>]
CfgNone == CfgVal("None")
CfgAbsent == [kind |-> "absent", val |-> "", items |-> <<>>]

\* config.py is not imported.
CfgIdle ==
    /\ DEFAULT_CONFIG = CfgAbsent
    /\ config = CfgAbsent
    /\ shared = {}
    /\ config_file = CfgAbsent
    /\ writable = TRUE
    /\ call = "none"
    /\ config_before = CfgAbsent
    /\ returned = CfgNone
    /\ updates = 0

\* The state of the functions called on their own.
libVars == << timeVars, srtVars, cfgVars >>

vars == << pipeVars, libVars >>

----------------------------------------------------------------------------
\* os.path helpers

\* os.path.normpath on the directory part: "x/.." collapses.
RECURSIVE NormDirs(_, _)
NormDirs(todo, done) ==
    IF todo = <<>> THEN done
    ELSE IF Head(todo) = ".." /\ done # <<>> /\ done[Len(done)] # ".."
         THEN NormDirs(Tail(todo), SubSeq(done, 1, Len(done) - 1))
         ELSE NormDirs(Tail(todo), Append(done, Head(todo)))

Norm(p) == [p EXCEPT !.dirs = NormDirs(p.dirs, <<>>)]

\* os.path.splitext(p)[0] + "." + ext
WithExt(p, ext) == [p EXCEPT !.ext = ext]

\* os.path.basename(p)
Basename(p) == [p EXCEPT !.dirs = <<>>]

\* os.path.join(dir, rel)
Join(dir, rel) == [rel EXCEPT !.dirs = dir \o rel.dirs]

RECURSIVE CommonLen(_, _)
CommonLen(a, b) ==
    IF a = <<>> \/ b = <<>> \/ Head(a) # Head(b) THEN 0
    ELSE 1 + CommonLen(Tail(a), Tail(b))

\* os.path.relpath(p, start): ".." for every component of start that is not
\* shared, then the rest of p.
RelPath(p, start) ==
    LET k == CommonLen(p.dirs, start)
    IN  [p EXCEPT !.dirs = [i \in 1..(Len(start) - k) |-> ".."]
                            \o SubSeq(p.dirs, k + 1, Len(p.dirs))]

\* os.walk(input_path) filtered by extension
Scan(exts) == SelectSeq(WalkOrder, LAMBDA f : f \in fs /\ f.ext \in exts)

\* One entry of the log: op (the call), src (the file it is about), dst (the
\* file it wrote, NoPath when none), ret (the path the caller gets or keeps
\* for the file, NoPath when none), ok (whether the call succeeded), err
\* (what went wrong, "" when nothing did).
EvErr(op, src, dst, ret, err) ==
    [op |-> op, src |-> src, dst |-> dst, ret |-> ret, ok |-> err = "",
     err |-> err]

Ev(op, src, dst, ret, ok) ==
    EvErr(op, src, dst, ret, IF ok THEN "" ELSE "error")

----------------------------------------------------------------------------
Init ==
    /\ TimeIdle
    /\ SrtIdle
    /\ CfgIdle
    /\ \E d \in BOOLEAN :
         IF d THEN input_path = [isdir |-> TRUE, path |-> P(InputRoot, "", "")]
         ELSE \E f \in InputFiles : input_path = [isdir |-> FALSE, path |-> f]
    /\ output_dir \in OutputDirs
    /\ steps \in StepLists
    /\ fs0 \in {s \in SUBSET InitialFiles : Cardinality(s) <= MaxFiles}
    /\ fs = fs0
    /\ pc = "main"
    /\ idx = 1
    /\ srt_files = <<>>
    /\ video_files = <<>>
    /\ txt_files = <<>>
    /\ md_files = <<>>
    /\ log = <<>>
    /\ reports = {}
    /\ raised = "none"
    /\ exitCode = -1

----------------------------------------------------------------------------
\* process_files

Has(step) == \E i \in 1..Len(steps) : steps[i] = step

\* main.py:304: process_all = "all" in steps
process_all == Has("all")

\* Mutant: `process_all or "<stage>"`, a non-empty string, is always true.
Requested_Truthy(stage) == TRUE

\* main.py:318, 322, 326: if process_all or "<stage>" in steps
Requested(stage) == process_all \/ Has(stage)

InputDir == input_path.path.dirs

\* main(): parse_args, then process_files up to the first stage.
MainStart ==
    /\ pc = "main"
    /\ pc' = "stage1"
    /\ txt_files' = <<>>
    /\ md_files' = <<>>
    /\ UNCHANGED << libVars, input_path, output_dir, steps, fs0, fs, idx, srt_files,
                    video_files, log, reports, raised, exitCode >>

----------------------------------------------------------------------------
\* Stage 1: convert_srt_to_txt_files

\* main.py:86-93: the TXT path the stage computes for an SRT of a directory
SrtTxtPath(srt_file) ==
    IF output_dir # <<>>
    THEN Join(output_dir, WithExt(RelPath(srt_file, InputDir), "txt"))
    ELSE WithExt(srt_file, "txt")

\* main.py:103-107: the TXT path the stage computes for a single SRT input
SingleTxtPath(srt_file) ==
    IF output_dir # <<>>
    THEN Join(output_dir, WithExt(Basename(srt_file), "txt"))
    ELSE WithExt(srt_file, "txt")

\* process_srt.py:10-84.  output_file_path = NoPath is Python's None.  The
\* result is the value returned and the file written (NoPath when the read
\* failed and the except clause returned None).
convert_srt_to_txt(srt_file_path, output_file_path, readable) ==
    LET out == IF output_file_path = NoPath
               THEN WithExt(srt_file_path, "txt")
               ELSE output_file_path
    IN  IF readable THEN [ret |-> out, wrote |-> out]
        ELSE [ret |-> NoPath, wrote |-> NoPath]

\* main.py:98 and 111: convert_srt_to_txt(srt_file, extract_text_only=True);
\* the computed txt_path is not passed.
StageConvertCall(srt_file, txt_path, readable) ==
    convert_srt_to_txt(srt_file, NoPath, readable)

\* main.py:99 and 112: txt_files.append(txt_path), whatever the call returned
StageKeeps(txt_path, res) == txt_path

Wrote(p) == IF p = NoPath THEN {} ELSE {Norm(p)}

\* Mutant: the videos found are not transcribed; the stage returns [].
SrtBranch_NoTranscribe(srts, videos) ==
    IF srts # <<>> THEN [pc |-> "convert", report |-> {}]
    ELSE [pc |-> "stage2", report |-> {"no_srt_or_video"}]

\* Mutant: finding neither SRT nor video raises instead of returning [].
SrtBranch_RaiseOnEmpty(srts, videos) ==
    IF srts # <<>> THEN [pc |-> "convert", report |-> {}]
    ELSE IF videos # <<>>
         THEN [pc |-> "transcribe", report |-> {"generating_srt"}]
         ELSE [pc |-> "except", report |-> {"no_srt_or_video"}]

\* main.py:47-74: what the directory branch does with the scan's result:
\* convert the SRT files found; with none, transcribe the videos found;
\* with neither, report and return [].
SrtBranch(srts, videos) ==
    IF srts # <<>> THEN [pc |-> "convert", report |-> {}]
    ELSE IF videos # <<>>
         THEN [pc |-> "transcribe", report |-> {"generating_srt"}]
         ELSE [pc |-> "stage2", report |-> {"no_srt_or_video"}]

\* The scan of lines 33-47 and the branch it takes (lines 47-72, 101-117).
SrtScan ==
    /\ pc = "stage1"
    /\ idx' = 1
    /\ IF ~Requested("srt2txt")
       THEN /\ pc' = "stage2"
            /\ UNCHANGED << srt_files, video_files, reports >>
       ELSE IF input_path.isdir
       THEN /\ video_files' = Scan(VideoExts)
            /\ srt_files' = Scan({"srt"})
            /\ pc' = SrtBranch(Scan({"srt"}), Scan(VideoExts)).pc
            /\ reports' = reports
                   \cup SrtBranch(Scan({"srt"}), Scan(VideoExts)).report
       ELSE IF input_path.path.ext = "srt"
       THEN /\ srt_files' = << input_path.path >>
            /\ pc' = "convert_single"
            /\ UNCHANGED << video_files, reports >>
       ELSE /\ pc' = "stage2"
            /\ reports' = reports \cup {"not_an_srt_input"}
            /\ UNCHANGED << srt_files, video_files >>
    /\ UNCHANGED << libVars, input_path, output_dir, steps, fs0, fs, txt_files, md_files,
                    log, raised, exitCode >>

\* main.py:62-68, one iteration: transcribe_to_srt(video_file), which writes
\* the SRT beside the video (generate_srt.py:30-40) or fails in inference.
TranscribeVideo ==
    /\ pc = "transcribe"
    /\ LET video_file == video_files[idx]
           srt_path == WithExt(video_file, "srt")
       IN  \E ok \in BOOLEAN :
             IF ok
             THEN /\ fs' = fs \cup {Norm(srt_path)}
                  /\ srt_files' = Append(srt_files, srt_path)
                  /\ log' = Append(log, Ev("transcribe", video_file, srt_path,
                                           srt_path, TRUE))
                  /\ IF idx = Len(video_files)
                     THEN pc' = "convert" /\ idx' = 1
                     ELSE pc' = pc /\ idx' = idx + 1
                  /\ UNCHANGED raised
             ELSE /\ log' = Append(log, Ev("transcribe", video_file, NoPath,
                                           NoPath, FALSE))
                  /\ raised' = "transcribe"
                  /\ pc' = "except"
                  /\ UNCHANGED << fs, srt_files, idx >>
    /\ UNCHANGED << libVars, input_path, output_dir, steps, fs0, video_files, txt_files,
                    md_files, reports, exitCode >>

\* main.py:84-100, one iteration of the directory loop.
ConvertSrtFile ==
    /\ pc = "convert"
    /\ LET srt_file == srt_files[idx]
           txt_path == SrtTxtPath(srt_file)
       IN  \E readable \in {r \in BOOLEAN : r => srt_file \in fs} :
             LET res == StageConvertCall(srt_file, txt_path, readable)
             IN  /\ fs' = fs \cup Wrote(res.wrote)
                 /\ txt_files' = Append(txt_files, StageKeeps(txt_path, res))
                 /\ log' = Append(log, Ev("convert_srt", srt_file, res.wrote,
                                          StageKeeps(txt_path, res), readable))
                 /\ reports' = IF readable THEN reports
                               ELSE reports \cup {"srt_read_error"}
    /\ IF idx = Len(srt_files)
       THEN pc' = "stage2" /\ idx' = 1
       ELSE pc' = pc /\ idx' = idx + 1
    /\ UNCHANGED << libVars, input_path, output_dir, steps, fs0, srt_files, video_files,
                    md_files, raised, exitCode >>

\* main.py:101-114: the single-file branch.
ConvertSingleSrt ==
    /\ pc = "convert_single"
    /\ LET srt_file == input_path.path
           txt_path == SingleTxtPath(srt_file)
       IN  \E readable \in {r \in BOOLEAN : r => srt_file \in fs} :
             LET res == StageConvertCall(srt_file, txt_path, readable)
             IN  /\ fs' = fs \cup Wrote(res.wrote)
                 /\ txt_files' = Append(txt_files, StageKeeps(txt_path, res))
                 /\ log' = Append(log, Ev("convert_srt", srt_file, res.wrote,
                                          StageKeeps(txt_path, res), readable))
                 /\ reports' = IF readable THEN reports
                               ELSE reports \cup {"srt_read_error"}
    /\ pc' = "stage2"
    /\ idx' = 1
    /\ UNCHANGED << libVars, input_path, output_dir, steps, fs0, srt_files, video_files,
                    md_files, raised, exitCode >>

----------------------------------------------------------------------------
\* Stage 2: summarize_txt_to_md

\* ai_summarizer.py:48-60
get_all_file ==
    IF input_path.isdir THEN Scan({"txt"})
    ELSE IF input_path.path \in fs /\ input_path.path.ext = "txt"
         THEN << input_path.path >>
         ELSE <<>>

\* main.py:162-173: the MD path of a TXT file
MdPath(txt_file) ==
    IF output_dir # <<>>
    THEN Join(output_dir,
              WithExt(IF input_path.isdir THEN RelPath(txt_file, InputDir)
                      ELSE Basename(txt_file), "md"))
    ELSE WithExt(txt_file, "md")

\* ai_summarizer.py:36-45: extract_text reads the file or raises
extract_text(file_path, readable) ==
    [events |-> << Ev("extract_text", file_path, NoPath, NoPath, readable) >>,
     raises |-> ~readable]

\* Mutant: the except clause swallows the error instead of raising it again.
summarize_text_Swallow(file_path, chat_ok) ==
    [events |-> << Ev("chat", file_path, NoPath, NoPath, chat_ok) >>,
     raises |-> FALSE]

\* ai_summarizer.py:21-33 and 63-135: summarize_text sends one request
\* through chat_with_qwen; an error is logged and raised again.
summarize_text(file_path, chat_ok) ==
    [events |-> << Ev("chat", file_path, NoPath, NoPath, chat_ok) >>,
     raises |-> ~chat_ok]

\* main.py:137-143: the list the stage works on, found by a scan when the
\* previous stage handed over nothing.
TxtScan ==
    /\ pc = "stage2"
    /\ idx' = 1
    /\ IF ~Requested("txt2md")
       THEN /\ pc' = "stage3"
            /\ UNCHANGED << txt_files, reports >>
       ELSE LET found == IF txt_files = <<>> THEN get_all_file ELSE txt_files
            IN  /\ txt_files' = found
                /\ IF found = <<>>
                   THEN pc' = "stage3" /\ reports' = reports \cup {"no_txt"}
                   ELSE pc' = "summarize" /\ UNCHANGED reports
    /\ UNCHANGED << libVars, input_path, output_dir, steps, fs0, fs, srt_files, video_files,
                    md_files, log, raised, exitCode >>

\* main.py:155-181, one iteration.
SummarizeFile ==
    /\ pc = "summarize"
    /\ LET txt_file == txt_files[idx]
           md_path == MdPath(txt_file)
       IN  \E readable \in {r \in BOOLEAN : r => Norm(txt_file) \in fs},
              chat_ok \in BOOLEAN :
             LET rd == extract_text(txt_file, readable)
                 ch == summarize_text(txt_file, chat_ok)
             IN  IF rd.raises
                 THEN /\ log' = log \o rd.events
                      /\ raised' = "extract_text"
                      /\ pc' = "except"
                      /\ UNCHANGED << fs, md_files, idx >>
                 ELSE IF ch.raises
                 THEN /\ log' = log \o rd.events \o ch.events
                      /\ raised' = "chat"
                      /\ pc' = "except"
                      /\ UNCHANGED << fs, md_files, idx >>
                 ELSE /\ log' = log \o rd.events \o ch.events
                                 \o << Ev("write_md", txt_file, md_path,
                                          md_path, TRUE) >>
                      /\ fs' = fs \cup {Norm(md_path)}
                      /\ md_files' = Append(md_files, md_path)
                      /\ IF idx = Len(txt_files)
                         THEN pc' = "stage3" /\ idx' = 1
                         ELSE pc' = pc /\ idx' = idx + 1
                      /\ UNCHANGED raised
    /\ UNCHANGED << libVars, input_path, output_dir, steps, fs0, srt_files, video_files,
                    txt_files, reports, exitCode >>

----------------------------------------------------------------------------
\* Stage 3: convert_md_to_docx_files

ConvertOutcomes == {"ok", "pandoc_error", "pandoc_missing"}

\* main.py:197-207: the MD files found when none were handed over
FindMd ==
    IF input_path.isdir THEN Scan({"md"})
    ELSE IF input_path.path.ext = "md" THEN << input_path.path >> ELSE <<>>

\* main.py:253-264: the DOCX path of an MD file
DocxPath(md_file) ==
    IF output_dir # <<>>
    THEN Join(output_dir,
              WithExt(IF input_path.isdir THEN RelPath(md_file, InputDir)
                      ELSE Basename(md_file), "docx"))
    ELSE WithExt(md_file, "docx")

\* Mutant: the conversion call is not wrapped in try/except.
convert_md_to_docx_NoExcept(md_file_path, output_docx_path, outcome) ==
    IF outcome = "ok"
    THEN [raises |-> FALSE, ret |-> output_docx_path, wrote |-> output_docx_path]
    ELSE [raises |-> TRUE, ret |-> NoPath, wrote |-> NoPath]

\* md2docx.py:12-74: pypandoc.convert_file inside try/except; both except
\* clauses return None.
convert_md_to_docx(md_file_path, output_docx_path, outcome) ==
    IF outcome = "ok"
    THEN [raises |-> FALSE, ret |-> output_docx_path, wrote |-> output_docx_path]
    ELSE [raises |-> FALSE, ret |-> NoPath, wrote |-> NoPath]

\* Mutant: the `return` after a failed download (line 235) is missing.
AfterPandocCheck_NoReturn(present, download_ok) == "docx"

\* main.py:214-239: what follows the pandoc check.  A missing pandoc is
\* downloaded (line 225); only when that fails does the stage return.
AfterPandocCheck(present, download_ok) ==
    IF present \/ download_ok THEN "docx" ELSE "finish"

\* main.py:216-225: the calls of the pandoc check
PandocCheckCalls(present, download_ok) ==
    IF present
    THEN << Ev("get_pandoc_version", NoPath, NoPath, NoPath, TRUE) >>
    ELSE << Ev("get_pandoc_version", NoPath, NoPath, NoPath, FALSE),
            Ev("download_pandoc", NoPath, NoPath, NoPath, download_ok) >>

\* main.py:219, 222-234: the messages of the pandoc check
PandocCheckReports(present, download_ok) ==
    IF present THEN {"pandoc_version"}
    ELSE IF download_ok THEN {"attempting_install", "pandoc_installed"}
    ELSE {"attempting_install", "install_error", "install_guidance"}

\* main.py:197-239: the list the stage works on and the pandoc check.  The
\* ImportError branch of lines 236-239 is not a step of a run: main.py:7
\* imports app.md2docx, which imports pypandoc when the program loads.
MdScan ==
    /\ pc = "stage3"
    /\ idx' = 1
    /\ IF ~Requested("md2docx")
       THEN /\ pc' = "finish"
            /\ UNCHANGED << md_files, reports, log >>
       ELSE LET found == IF md_files = <<>> THEN FindMd ELSE md_files
            IN  /\ md_files' = found
                /\ IF found = <<>>
                   THEN /\ pc' = "finish"
                        /\ reports' = reports \cup {"no_md"}
                        /\ UNCHANGED log
                   ELSE \E present \in BOOLEAN : \E download_ok \in BOOLEAN :
                          /\ pc' = AfterPandocCheck(present, download_ok)
                          /\ log' = log \o PandocCheckCalls(present, download_ok)
                          /\ reports' = reports \cup
                                 PandocCheckReports(present, download_ok)
    /\ UNCHANGED << libVars, input_path, output_dir, steps, fs0, fs, srt_files, video_files,
                    txt_files, raised, exitCode >>

\* Mutant: a failed conversion ends the loop.
DocxLoopNext_BreakOnFailure(res, i, n) ==
    IF i = n \/ res.ret = NoPath
    THEN [pc |-> "finish", idx |-> 1, raised |-> "none"]
    ELSE [pc |-> "docx", idx |-> i + 1, raised |-> "none"]

\* main.py:269-276: where the loop goes after one file; the except clause
\* of line 273 keeps a raised error inside the iteration.
DocxLoopNext(res, i, n) ==
    IF i = n THEN [pc |-> "finish", idx |-> 1, raised |-> "none"]
    ELSE [pc |-> "docx", idx |-> i + 1, raised |-> "none"]

\* main.py:251-276, one iteration.
ConvertMdFile ==
    /\ pc = "docx"
    /\ LET md_file == md_files[idx]
           docx_path == DocxPath(md_file)
       IN  \E outcome \in ConvertOutcomes :
             LET res == convert_md_to_docx(md_file, docx_path, outcome)
                 nxt == DocxLoopNext(res, idx, Len(md_files))
             IN  /\ fs' = fs \cup Wrote(res.wrote)
                 /\ log' = Append(log,
                        EvErr(IF res.raises THEN "convert_md_raised"
                              ELSE "convert_md", md_file, res.wrote, res.ret,
                              IF outcome = "ok" THEN "" ELSE outcome))
                 /\ reports' = IF outcome = "ok" THEN reports
                               ELSE reports \cup {"docx_error"}
                 /\ pc' = nxt.pc
                 /\ idx' = nxt.idx
                 /\ raised' = IF nxt.raised = "none" THEN raised ELSE nxt.raised
    /\ UNCHANGED << libVars, input_path, output_dir, steps, fs0, srt_files, video_files,
                    txt_files, md_files, exitCode >>

----------------------------------------------------------------------------
\* main(): the end of the run

\* Mutant: the except clause reports the error but does not call sys.exit(1).
ExitCodeOf_NoExit(at) == 0

\* main.py:351-359: sys.exit(1) in the except clause, a normal return (exit
\* code 0) otherwise
ExitCodeOf(at) == IF at = "except" THEN 1 ELSE 0

\* main.py:354-355: process_files returned.
MainReturn ==
    /\ pc = "finish"
    /\ pc' = "done"
    /\ exitCode' = ExitCodeOf(pc)
    /\ reports' = reports \cup {"completed_successfully"}
    /\ UNCHANGED << libVars, input_path, output_dir, steps, fs0, fs, idx, srt_files,
                    video_files, txt_files, md_files, log, raised >>

\* main.py:356-359: an exception escaped process_files.
MainExcept ==
    /\ pc = "except"
    /\ pc' = "done"
    /\ exitCode' = ExitCodeOf(pc)
    /\ reports' = reports \cup {"pipeline_failed"}
    /\ UNCHANGED << libVars, input_path, output_dir, steps, fs0, fs, idx, srt_files,
                    video_files, txt_files, md_files, log, raised >>

Next ==
    \/ MainStart
    \/ SrtScan
    \/ TranscribeVideo
    \/ ConvertSrtFile
    \/ ConvertSingleSrt
    \/ TxtScan
    \/ SummarizeFile
    \/ MdScan
    \/ ConvertMdFile
    \/ MainReturn
    \/ MainExcept

Spec == Init /\ [][Next]_vars

----------------------------------------------------------------------------
\* Properties

Events(ops) == {i \in 1..Len(log) : log[i].op \in ops}
Failed(ops) == {i \in Events(ops) : ~log[i].ok}
Exts(files, exts) == {f \in files : f.ext \in exts}
Finished == pc = "done"

\* <output_dir>/<rel>.txt for an SRT at <input>/<rel>.srt, and
\* <output_dir>/<basename>.txt for a single SRT input
ExpectedTxt(srt) ==
    IF input_path.isdir
    THEN P(output_dir \o SubSeq(srt.dirs, Len(InputDir) + 1, Len(srt.dirs)),
           srt.stem, "txt")
    ELSE P(output_dir, srt.stem, "txt")

\* C1 (as claimed): with an output directory set, the text of every SRT the
\* srt2txt stage converts is written to <output_dir>/<rel>.txt (to
\* <output_dir>/<basename>.txt for a single SRT input), and the path written
\* is the path the stage returns for the file.
C1_TxtWrittenAtReturnedPath ==
    \A i \in Events({"convert_srt"}) :
        (log[i].ok /\ output_dir # <<>>) =>
            /\ log[i].dst = ExpectedTxt(log[i].src)
            /\ log[i].dst = log[i].ret

\* What the command line asks for, read off args.steps
Asked(stage) == \E k \in 1..Len(steps) : steps[k] \in {stage, "all"}

Stage1Ops == {"transcribe", "convert_srt"}
Stage2Ops == {"extract_text", "chat", "write_md"}
Stage3Ops == {"get_pandoc_version", "download_pandoc", "convert_md",
              "convert_md_raised"}
StageOf(op) == IF op \in Stage1Ops THEN "srt2txt"
               ELSE IF op \in Stage2Ops THEN "txt2md" ELSE "md2docx"
StageRank(op) == IF op \in Stage1Ops THEN 1
                 ELSE IF op \in Stage2Ops THEN 2 ELSE 3

\* convert_srt_to_txt_files has returned to process_files
Stage1Returned ==
    /\ pc \notin {"main", "stage1", "transcribe", "convert", "convert_single"}
    /\ raised # "transcribe"

NoTxtInput ==
    IF input_path.isdir THEN Exts(fs0, {"txt"}) = {}
    ELSE ~(input_path.path.ext = "txt" /\ input_path.path \in fs0)

NoMdInput ==
    IF input_path.isdir THEN Exts(fs0, {"md"}) = {}
    ELSE input_path.path.ext # "md"

\* C2 (as claimed): whichever stage is requested, when its input files are
\* absent from the input directory and files of an earlier stage are
\* present, a run that ends without error has run the upstream stage(s) and
\* then the requested stage.
C2_UpstreamRunsForEveryStage ==
    (Finished /\ raised = "none" /\ input_path.isdir) =>
        /\ (Asked("srt2txt") /\ Exts(fs0, {"srt"}) = {}
               /\ Exts(fs0, VideoExts) # {})
             => Events({"transcribe"}) # {} /\ Events({"convert_srt"}) # {}
        /\ (Asked("txt2md") /\ Exts(fs0, {"txt"}) = {}
               /\ Exts(fs0, {"srt"}) # {})
             => Events({"convert_srt"}) # {} /\ Events({"chat"}) # {}
        /\ (Asked("md2docx") /\ Exts(fs0, {"md"}) = {}
               /\ Exts(fs0, {"txt"}) # {})
             => Events({"chat"}) # {} /\ Events({"get_pandoc_version"}) # {}

\* C2 (amended): only the srt2txt stage runs an upstream step.  Requested on
\* a directory with videos and no SRT it transcribes every video before it
\* converts any SRT, and once it has returned every resulting SRT has been
\* converted.  A stage that was not requested never runs: txt2md without
\* srt2txt that finds no TXT, and md2docx without txt2md that finds no MD,
\* report that no files were found and call nothing of their stage.
C2_OnlyVideosAreTranscribedUpstream ==
    /\ (input_path.isdir /\ Asked("srt2txt") /\ Exts(fs0, {"srt"}) = {}
           /\ Exts(fs0, VideoExts) # {}) =>
          /\ \A i \in Events({"convert_srt"}) :
                /\ \A v \in Exts(fs0, VideoExts) :
                      \E j \in Events({"transcribe"}) :
                          j < i /\ log[j].src = v /\ log[j].ok
                /\ \E j \in Events({"transcribe"}) : log[j].ret = log[i].src
          /\ Stage1Returned =>
                \A v \in Exts(fs0, VideoExts) :
                    \E i \in Events({"convert_srt"}) :
                        log[i].src = WithExt(v, "srt")
    /\ ~Asked("srt2txt") => Events(Stage1Ops) = {}
    /\ ~Asked("txt2md") => Events(Stage2Ops) = {}
    /\ (Finished /\ Asked("txt2md") /\ ~Asked("srt2txt") /\ NoTxtInput) =>
          "no_txt" \in reports /\ Events(Stage1Ops \cup Stage2Ops) = {}
    /\ (Finished /\ Asked("md2docx") /\ ~Asked("txt2md") /\ NoMdInput
           /\ raised = "none") =>
          "no_md" \in reports /\ Events(Stage2Ops \cup Stage3Ops) = {}

\* C2 witness: srt2txt alone on a directory of two videos has transcribed
\* both and converted both resulting SRT files.
C2_Witness ==
    /\ Finished /\ input_path.isdir /\ steps = << "srt2txt" >>
    /\ fs0 = Exts(InitialFiles, VideoExts)
    /\ Cardinality(Events({"transcribe"})) = 2
    /\ Cardinality(Events({"convert_srt"})) = 2

\* C3: only the requested stages execute (all three with "all"), in the
\* order srt2txt, txt2md, md2docx whatever the order of the steps; a stage
\* has processed every one of its files before the next stage's first call;
\* within srt2txt every video is transcribed before any SRT is converted.
C3_StagesInOrderToCompletion ==
    /\ \A i \in 1..Len(log) : Asked(StageOf(log[i].op))
    /\ \A i, j \in 1..Len(log) :
          i < j => StageRank(log[i].op) <= StageRank(log[j].op)
    /\ (Events(Stage2Ops \cup Stage3Ops) # {} /\ Asked("srt2txt")) =>
          \A k \in 1..Len(srt_files) :
              \E i \in Events({"convert_srt"}) : log[i].src = srt_files[k]
    /\ (Events(Stage3Ops) # {} /\ Asked("txt2md")) =>
          \A k \in 1..Len(txt_files) :
              \E i \in Events({"write_md"}) : log[i].src = txt_files[k]
    /\ \A i \in Events({"convert_srt"}) :
          /\ \A j \in Events({"transcribe"}) : j < i
          /\ Events({"transcribe"}) # {} =>
                \A k \in 1..Len(video_files) :
                    \E j \in Events({"transcribe"}) :
                        log[j].src = video_files[k]

\* C3 witness: the three stages given in reverse order have run over two
\* videos, through transcription, conversion, summary and DOCX.
C3_Witness ==
    /\ Finished /\ steps = << "md2docx", "txt2md", "srt2txt" >>
    /\ Cardinality(Events({"transcribe"})) = 2
    /\ Cardinality(Events({"convert_srt"})) = 2
    /\ Cardinality(Events({"write_md"})) = 2
    /\ Cardinality(Events({"convert_md"})) = 2

\* C4 (as claimed): an SRT that cannot be read is skipped: its TXT path is
\* not among the files handed to the summarization stage, the other SRT
\* files are converted, and the run does not abort on it.
C4_UnreadableSrtIsSkipped ==
    \A i \in Failed({"convert_srt"}) :
        /\ Stage1Returned =>
              /\ \A k \in 1..Len(srt_files) :
                    \E j \in Events({"convert_srt"}) :
                        log[j].src = srt_files[k]
              /\ pc = "stage2" =>
                    \A k \in 1..Len(txt_files) : txt_files[k] # log[i].ret
        /\ \A j \in Failed({"extract_text"}) : log[j].src # log[i].ret

\* C5: a failed chat-completion call ends the run: one request was sent for
\* the file, nothing is called after it (no retry, no later TXT file, no
\* md2docx stage), the error escapes as the run's exception and the exit
\* code is 1; the Markdown files written before it are still on disk.
C5_ChatFailureAborts ==
    \A i \in Failed({"chat"}) :
        /\ i = Len(log)
        /\ Cardinality({j \in Events({"chat"}) : log[j].src = log[i].src}) = 1
        /\ raised = "chat"
        /\ pc \in {"except", "done"}
        /\ Finished => exitCode = 1
        /\ \A j \in Events({"write_md"}) : j < i /\ Norm(log[j].dst) \in fs

\* C5 witness: a run that wrote one Markdown file, then failed in the chat
\* call for the next file, has exited with code 1.
C5_Witness ==
    /\ Finished /\ exitCode = 1
    /\ Failed({"chat"}) # {}
    /\ Events({"write_md"}) # {}

\* C6: the run exits with code 1 exactly when an exception escaped
\* process_files (a failed transcription, TXT read or chat call) and with
\* code 0 otherwise, reporting successful completion; errors swallowed
\* inside a stage leave the exit code 0.
C6_ExitOneIffExceptionEscaped ==
    Finished =>
        /\ exitCode \in {0, 1}
        /\ exitCode = 1 <=> raised # "none"
        /\ exitCode = 1 <=> Failed({"transcribe", "extract_text", "chat"}) # {}
        /\ exitCode = 0 => "completed_successfully" \in reports
        /\ exitCode = 1 => "completed_successfully" \notin reports

\* C6 witness: a run with an unreadable SRT and a failed DOCX conversion,
\* both swallowed, has exited with code 0 and reported success.
C6_Witness ==
    /\ Finished /\ exitCode = 0
    /\ Failed({"convert_srt"}) # {}
    /\ Failed({"convert_md"}) # {}
    /\ "completed_successfully" \in reports

\* C7: on an empty input directory every requested stage reports that it
\* found no files, nothing is called (transcriber, chat endpoint, pandoc),
\* no file is written and the run exits with code 0.
C7_EmptyDirectoryDoesNothing ==
    (input_path.isdir /\ fs0 = {}) =>
        /\ log = <<>>
        /\ fs = {}
        /\ raised = "none"
        /\ pc # "except"
        /\ Finished =>
              /\ exitCode = 0
              /\ Asked("srt2txt") => "no_srt_or_video" \in reports
              /\ Asked("txt2md") => "no_txt" \in reports
              /\ Asked("md2docx") => "no_md" \in reports

\* C7 witness: the full pipeline on an empty directory has ended with the
\* three no-files reports.
C7_Witness ==
    /\ Finished /\ input_path.isdir /\ fs0 = {} /\ steps = << "all" >>
    /\ {"no_srt_or_video", "no_txt", "no_md"} \subseteq reports
    /\ exitCode = 0

ConvertEvents ==
    SelectSeq(log, LAMBDA e : e.op \in {"convert_md", "convert_md_raised"})

\* C8: convert_md_to_docx never raises to its caller; it returns None for
\* every converter failure, a missing converter included, and the DOCX path
\* it was given exactly when the conversion succeeded.
C8_ConverterReturnsNoneOnFailure ==
    /\ Events({"convert_md_raised"}) = {}
    /\ \A i \in Events({"convert_md"}) :
          /\ log[i].ok <=> log[i].ret # NoPath
          /\ log[i].ok => /\ log[i].ret = DocxPath(log[i].src)
                          /\ Norm(log[i].ret) \in fs
          /\ ~log[i].ok => log[i].dst = NoPath

\* C8 witness: one conversion failed for want of the converter and another
\* succeeded.
C8_Witness ==
    /\ \E i \in Events({"convert_md"}) : log[i].err = "pandoc_missing"
    /\ \E i \in Events({"convert_md"}) : log[i].ok

PandocUsable ==
    \E i \in Events({"get_pandoc_version", "download_pandoc"}) : log[i].ok

\* C9: in the md2docx stage every Markdown file of the list is attempted
\* once, in list order, whether or not earlier conversions failed, and a
\* failed conversion does not make the stage raise.
C9_EveryMarkdownAttemptedOnce ==
    /\ Len(ConvertEvents) <= Len(md_files)
    /\ \A k \in 1..Len(ConvertEvents) : ConvertEvents[k].src = md_files[k]
    /\ (pc \in {"finish", "done", "except"} /\ PandocUsable) =>
          Len(ConvertEvents) = Len(md_files)
    /\ ConvertEvents # <<>> => raised = "none" /\ pc # "except"

\* C9 witness: the first of two conversions failed and the second was
\* still made, and succeeded.
C9_Witness ==
    /\ Finished /\ Len(ConvertEvents) = 2
    /\ ~ConvertEvents[1].ok /\ ConvertEvents[2].ok

\* C10 (as claimed): when pandoc is missing the stage makes no attempt to
\* install it, converts nothing, reports installation guidance and returns
\* without raising.
C10_MissingPandocStageSkippedWithoutInstall ==
    Failed({"get_pandoc_version"}) # {} =>
        /\ Events({"download_pandoc"}) = {}
        /\ ConvertEvents = <<>>
        /\ "install_guidance" \in reports
        /\ raised = "none"

\* C10 (amended): when pandoc is missing the stage attempts one download of
\* it.  If the download fails, the stage reports the error with
\* installation guidance, converts no Markdown file and returns without
\* raising (the run exits 0); if it succeeds, the stage converts the
\* Markdown files.  A pandoc that is present is never downloaded.
C10_MissingPandocDownloadedOnceElseSkipped ==
    /\ \A i \in Failed({"get_pandoc_version"}) :
          /\ i < Len(log) /\ log[i + 1].op = "download_pandoc"
          /\ Cardinality(Events({"download_pandoc"})) = 1
          /\ "attempting_install" \in reports
          /\ raised = "none"
          /\ ~log[i + 1].ok =>
                /\ ConvertEvents = <<>>
                /\ {"install_error", "install_guidance"} \subseteq reports
                /\ pc \in {"finish", "done"}
                /\ Finished => exitCode = 0
          /\ (log[i + 1].ok /\ pc \in {"finish", "done"}) =>
                Len(ConvertEvents) = Len(md_files)
    /\ \A i \in Events({"get_pandoc_version"}) :
          log[i].ok => Events({"download_pandoc"}) = {}

\* C10 witness: pandoc was missing, its download failed, and the run ended
\* with the guidance shown and the Markdown files left unconverted.
C10_Witness ==
    /\ Finished /\ Failed({"download_pandoc"}) # {}
    /\ md_files # <<>> /\ ConvertEvents = <<>>
    /\ "install_guidance" \in reports

----------------------------------------------------------------------------
\* No run of the pipeline is under way: the state in which the functions of
\* app/ and config.py are called on their own.
PipeIdle ==
    /\ input_path = [isdir |-> TRUE, path |-> P(InputRoot, "", "")]
    /\ output_dir = <<>>
    /\ steps = <<"all">>
    /\ fs0 = {}
    /\ fs = {}
    /\ pc = "idle"
    /\ idx = 1
    /\ srt_files = <<>>
    /\ video_files = <<>>
    /\ txt_files = <<>>
    /\ md_files = <<>>
    /\ log = <<>>
    /\ reports = {}
    /\ raised = "none"
    /\ exitCode = -1

----------------------------------------------------------------------------
\* app/generate_srt.py: format_timestamp
\*
\* The argument is a Python float. The model takes the floats nearest to a
\* whole number of milliseconds t, seconds = RN(t / 1000), and follows
\* IEEE 754: every operation returns the double nearest to its exact
\* result, ties to even. With I = t div 1000 and r = t mod 1000, the
\* fraction of the double is F / 2^n for the integer F nearest to
\* r * 2^n / 1000, where n is the number of fraction bits the significand
\* has left. Exact values that do not fit an integer of the checker are
\* sequences of bits, most significant first.

\* The largest argument below the added boundary cases, in milliseconds.
MaxMillis == 1200

\* The significand of a double has 53 bits.
MantissaBits == 53

\* The arguments: every whole millisecond up to MaxMillis, the example of
\* the documentation (3661.5 s), and the values around 100 hours.
TimestampInputs ==
    (0..MaxMillis) \cup {3661500, 86399999, 359999999, 360000000, 360000001}

\* The number of bits of a non-negative integer below 2^30.
BitLen(i) == CHOOSE n \in 0..30 : i < 2 ^ n /\ (n > 0 => i >= 2 ^ (n - 1))

\* 2^k mod 1000, for k up to 63.
Pow2Mod(k) ==
    LET a == k \div 3
        b == (k + 1) \div 3
        c == k - a - b
    IN  (((2 ^ a) % 1000) * ((2 ^ b) % 1000) * ((2 ^ c) % 1000)) % 1000

Zeros(n) == [i \in 1..n |-> 0]
Ones(n) == [i \in 1..n |-> 1]

\* The 10 bits of v < 1024.
Bits10(v) == [i \in 1..10 |-> (v \div (2 ^ (10 - i))) % 2]

\* The value of 10 bits.
Value10(bits) ==
    512 * bits[1] + 256 * bits[2] + 128 * bits[3] + 64 * bits[4]
    + 32 * bits[5] + 16 * bits[6] + 8 * bits[7] + 4 * bits[8]
    + 2 * bits[9] + bits[10]

\* bits + 1 unit in the last place (a carry out of the first bit does not
\* happen below: the product stays under 1000).
IncBits(bits) ==
    LET zeros == {i \in 1..Len(bits) : bits[i] = 0}
        last  == CHOOSE i \in zeros : \A j \in zeros : j <= i
    IN  IF zeros = {} THEN Zeros(Len(bits))
        ELSE SubSeq(bits, 1, last - 1) \o <<1>> \o Zeros(Len(bits) - last)

LeadingZeros(bits) ==
    LET ones == {i \in 1..Len(bits) : bits[i] = 1}
    IN  IF ones = {} THEN Len(bits)
        ELSE (CHOOSE i \in ones : \A j \in ones : i <= j) - 1

\* The number n of fraction bits of RN(t / 1000), t not a whole second:
\* the significand's bits less those of the integer part, or, below one
\* second, the significand's bits behind the fraction's leading zeros.
FracExp(t) ==
    LET I == t \div 1000
        r == t % 1000
        z == CHOOSE k \in 0..9 : r * (2 ^ k) < 1000 /\ r * (2 ^ (k + 1)) >= 1000
    IN  IF I > 0 THEN MantissaBits - BitLen(I) ELSE MantissaBits + z

\* seconds % 1 (fmod by 1 is exact), given by 1000 * F - r * 2^n: what the
\* fraction F / 2^n of the double has more (or less) than r / 1000, in
\* units of 2^-n / 1000. F is r * 2^n / 1000 rounded to nearest, ties to
\* even.
FracErr(t) ==
    LET r    == t % 1000
        n    == FracExp(t)
        rem  == (r * Pow2Mod(n)) % 1000
        last == IF 2 * ((r * Pow2Mod(n - 1)) % 1000) >= 1000 THEN 1 ELSE 0
        up   == 2 * rem > 1000 \/ (2 * rem = 1000 /\ last = 1)
    IN  IF up THEN 1000 - rem ELSE 0 - rem

\* The exact product (seconds % 1) * 1000 = (r * 2^n + FracErr) / 2^n:
\* 10 bits of integer part, then n bits of fraction.
Product(t) ==
    LET r == t % 1000
        n == FracExp(t)
        e == FracErr(t)
    IN  IF e >= 0 THEN Bits10(r) \o Zeros(n - 10) \o Bits10(e)
        ELSE Bits10(r - 1) \o Ones(n - 10) \o Bits10(1024 + e)

\* The double nearest to an exact value: MantissaBits significant bits,
\* round to nearest, ties to even.
RoundSig(bits) ==
    LET keep == LeadingZeros(bits) + MantissaBits
        kept == SubSeq(bits, 1, keep)
        rest == SubSeq(bits, keep + 1, Len(bits))
        more == \E j \in 2..Len(rest) : rest[j] = 1
        up   == rest[1] = 1 /\ (more \/ kept[keep] = 1)
    IN  IF keep >= Len(bits) THEN bits
        ELSE IF up THEN IncBits(kept)
        ELSE kept

\* generate_srt.py:50: millis = int((seconds % 1) * 1000)
Millis(t) ==
    IF t % 1000 = 0 THEN 0
    ELSE Value10(SubSeq(RoundSig(Product(t)), 1, 10))

Digits == << "0", "1", "2", "3", "4", "5", "6", "7", "8", "9" >>

RECURSIVE Dec(_)
Dec(n) ==
    IF n < 10 THEN << Digits[n + 1] >>
    ELSE Append(Dec(n \div 10), Digits[(n % 10) + 1])

\* Mutant: the fields are written without zero fill.
Pad_NoFill(n, width) == Dec(n)

\* The format specs :02 and :03: at least `width` digits, zero filled.
Pad(n, width) ==
    LET d == Dec(n)
    IN  [i \in 1..(width - Len(d)) |-> "0"] \o d

\* Mutant: the minutes are not reduced modulo the hour.
Fields_MinutesOfDay(t) ==
    LET I == t \div 1000
    IN  [hours |-> I \div 3600, minutes |-> I \div 60, secs |-> I % 60,
         millis |-> Millis(t)]

\* generate_srt.py:47-50: floor division and fmod of the double by 3600, 60
\* and 1 are exact, and the integer part of RN(t / 1000) is t div 1000.
Fields(t) ==
    LET I == t \div 1000
    IN  [hours |-> I \div 3600, minutes |-> (I % 3600) \div 60,
         secs |-> I % 60, millis |-> Millis(t)]

\* generate_srt.py:51
format_timestamp(t) ==
    LET f == Fields(t)
    IN  Pad(f.hours, 2) \o <<":">> \o Pad(f.minutes, 2) \o <<":">>
        \o Pad(f.secs, 2) \o <<",">> \o Pad(f.millis, 3)

TimeInit ==
    /\ PipeIdle
    /\ SrtIdle
    /\ CfgIdle
    /\ seconds \in TimestampInputs
    /\ stamp = <<>>

FormatTimestamp ==
    /\ stamp = <<>>
    /\ stamp' = format_timestamp(seconds)
    /\ UNCHANGED << pipeVars, srtVars, cfgVars, seconds >>

TimeNext == FormatTimestamp

SpecTime == TimeInit /\ [][TimeNext]_vars

----------------------------------------------------------------------------
\* app/process_srt.py: convert_srt_to_txt, on the content of the files.
\* A text is a sequence of characters.

\* The largest number of segments of a transcription, and of blocks of an
\* SRT file.
MaxBlocks == 3

\* The largest number of newlines behind the last block of an SRT file.
MaxTrailing == 2

\* \s and \d, on the characters of the model.
\* The classes \s and \d of the pattern, on the characters of the model.
Whitespace == {" ", "\n", "\t"}
DecimalDigits == {"0", "1", "2", "3", "4", "5", "6", "7", "8", "9"}

IsWs(c) == c \in Whitespace
IsDigit(c) == c \in DecimalDigits

Min(S) == CHOOSE i \in S : \A j \in S : i <= j
Max(S) == CHOOSE i \in S : \A j \in S : j <= i

\* The position behind the longest run that starts at position i, of the
\* characters of a class (member) or of the others: what a greedy \s*,
\* \d+ or [^>]* consumes.
RunEnd(s, i, class, member) ==
    CHOOSE j \in i..(Len(s) + 1) :
        /\ j = Len(s) + 1 \/ (s[j] \in class) # member
        /\ \A k \in i..(j - 1) : (s[k] \in class) = member

\* \d{2}:\d{2}:\d{2},\d{3} at position i.
StampAt(s, i) ==
    /\ i + 11 <= Len(s)
    /\ \A k \in 0..11 :
         IF k \in {2, 5} THEN s[i + k] = ":"
         ELSE IF k = 8 THEN s[i + k] = ","
         ELSE IsDigit(s[i + k])

\* The first group of the pattern at position i: the position behind it,
\* 0 when it does not match. \s* is followed by a character that is no
\* whitespace, so it consumes the whole run.
RangeAt(s, i) ==
    LET a == RunEnd(s, i + 12, Whitespace, TRUE)
        b == RunEnd(s, a + 3, Whitespace, TRUE)
    IN  IF /\ StampAt(s, i)
           /\ a + 2 <= Len(s)
           /\ SubSeq(s, a, a + 2) = << "-", "-", ">" >>
           /\ StampAt(s, b)
        THEN b + 12 ELSE 0

\* \n\s*\n\d+\s*\n at position e: a newline, a whitespace run that ends
\* in a newline right before the digits, and a newline in the whitespace
\* behind the digits.
Lookahead(s, e) ==
    LET w  == RunEnd(s, e + 1, Whitespace, TRUE)
        d  == RunEnd(s, w, DecimalDigits, TRUE)
        w2 == RunEnd(s, d, Whitespace, TRUE)
    IN  /\ e <= Len(s)
        /\ s[e] = "\n"
        /\ w > e + 1
        /\ s[w - 1] = "\n"
        /\ d > w
        /\ \E j \in d..(w2 - 1) : s[j] = "\n"

\* Mutant: the lookahead without the end of the input.
BlockEnd_NoEndOfInput(s, e) == Lookahead(s, e)

\* process_srt.py:45: (?=\n\s*\n\d+\s*\n|\Z) at position e.
BlockEnd(s, e) == Lookahead(s, e) \/ e = Len(s) + 1

\* The pattern of process_srt.py:45 at position i: whether it matches, the
\* second group, and the position behind the match. \d+ and the \s* before
\* the range consume their whole runs (to d and to w); the \s*\n behind the
\* range (r to v) gives back up to the last newline of its run; the lazy
\* text stops at the first position where the lookahead holds.
MatchAt(s, i) ==
    LET None == [ok |-> FALSE, text |-> <<>>, end |-> 0]
        Text(from) ==
            IF \E e \in from..(Len(s) + 1) : BlockEnd(s, e)
            THEN LET e == CHOOSE e \in from..(Len(s) + 1) :
                             /\ BlockEnd(s, e)
                             /\ \A k \in from..(e - 1) : ~BlockEnd(s, k)
                 IN  [ok |-> TRUE, text |-> SubSeq(s, from, e - 1), end |-> e]
            ELSE None
        Newline(nl) == IF nl = {} THEN None ELSE Text(Max(nl) + 1)
        Behind(r, v) ==
            IF r = 0 THEN None
            ELSE Newline({j \in r..(v - 1) : s[j] = "\n"})
        Index(d, w) ==
            IF d > i /\ w > d /\ s[w - 1] = "\n"
            THEN Behind(RangeAt(s, w),
                        RunEnd(s, RangeAt(s, w), Whitespace, TRUE))
            ELSE None
    IN  Index(RunEnd(s, i, DecimalDigits, TRUE),
              RunEnd(s, RunEnd(s, i, DecimalDigits, TRUE), Whitespace, TRUE))

\* process_srt.py:48: re.findall, the second groups of the matches: the
\* leftmost match from a position on, then on from the end of the match.
RECURSIVE FindAll(_, _)
FindAll(s, pos) ==
    LET Rest(m) == << m.text >> \o FindAll(s, m.end)
        First(starts) ==
            IF starts = {} THEN <<>> ELSE Rest(MatchAt(s, Min(starts)))
    IN  First({i \in pos..Len(s) : IsDigit(s[i]) /\ MatchAt(s, i).ok})

\* Mutant: the tags stay in the text.
StripTags_Keep(text) == text

\* process_srt.py:55: re.sub(r"<[^>]+>", "", text): from a "<" to the next
\* ">", with at least one character between them.
RECURSIVE StripTags(_)
StripTags(text) ==
    LET Close(i) == RunEnd(text, i + 1, {">"}, FALSE)
        opens == {i \in 1..Len(text) :
                    /\ text[i] = "<"
                    /\ Close(i) <= Len(text)
                    /\ Close(i) >= i + 2}
        i == Min(opens)
    IN  IF opens = {} THEN text
        ELSE SubSeq(text, 1, i - 1)
             \o StripTags(SubSeq(text, Close(i) + 1, Len(text)))

\* process_srt.py:56: re.sub(r"\s+", " ", text)
CollapseWs(text) ==
    LET kept == {i \in 1..Len(text) :
                    ~IsWs(text[i]) \/ i = 1 \/ ~IsWs(text[i - 1])}
        At(k) == CHOOSE i \in kept : Cardinality({j \in kept : j <= i}) = k
    IN  [k \in 1..Cardinality(kept) |->
            IF IsWs(text[At(k)]) THEN " " ELSE text[At(k)]]

\* str.strip()
Trim(text) ==
    LET solid == {i \in 1..Len(text) : ~IsWs(text[i])}
    IN  IF solid = {} THEN <<>> ELSE SubSeq(text, Min(solid), Max(solid))

\* process_srt.py:55-57
CleanText(text) == Trim(CollapseWs(StripTags(text)))

\* str.join
RECURSIVE JoinText(_, _)
JoinText(sep, texts) ==
    IF texts = <<>> THEN <<>>
    ELSE IF Len(texts) = 1 THEN texts[1]
    ELSE texts[1] \o sep \o JoinText(sep, Tail(texts))

\* process_srt.py:51-60: the cleaned text of every match, when not empty.
TextContent(content) ==
    LET Kept(texts) ==
            SelectSeq([k \in 1..Len(texts) |-> CleanText(texts[k])],
                      LAMBDA t : t # <<>>)
    IN  Kept(FindAll(content, 1))

\* process_srt.py:22-27: extract_text_only, the parameter when it is given.
\* main.py:98 and 111 pass True; process_srt.py:105 passes nothing.
ExtractTextOnly(who, section) ==
    IF who = "pipeline" THEN TRUE ELSE section.extract_text_only

\* process_srt.py:62-72: output_content
OutputContent(content, fragments, extract_text_only, combine_sentences) ==
    IF extract_text_only
    THEN IF combine_sentences THEN JoinText(<<" ">>, fragments)
         ELSE JoinText(<<"\n">>, fragments)
    ELSE content

----------------------------------------------------------------------------
\* app/generate_srt.py: transcribe_to_srt, the writing of the SRT file

Arrow == << " ", "-", "-", ">", " " >>

\* Mutant: enumerate(...) without start=1.
SrtBlock_FromZero(i, segment) ==
    Dec(i - 1) \o <<"\n">> \o format_timestamp(segment.start) \o Arrow
    \o format_timestamp(segment.end) \o <<"\n">> \o Trim(segment.text)
    \o <<"\n", "\n">>

\* generate_srt.py:36-40: f"{i}\n{start} --> {end}\n{text}\n\n"
SrtBlock(i, segment) ==
    Dec(i) \o <<"\n">> \o format_timestamp(segment.start) \o Arrow
    \o format_timestamp(segment.end) \o <<"\n">> \o Trim(segment.text)
    \o <<"\n", "\n">>

\* generate_srt.py:34-40: the blocks of segs[i..], enumerate(..., start=1)
RECURSIVE SrtBlocks(_, _)
SrtBlocks(segs, i) ==
    IF i > Len(segs) THEN <<>>
    ELSE SrtBlock(i, segs[i]) \o SrtBlocks(segs, i + 1)

\* The texts of the segments Whisper returns, each with what it reads as
\* trimmed, and as clean (whitespace runs single spaces, too): a leading
\* space, inner and trailing whitespace, nothing, only a space.
SegmentTexts ==
    { [text |-> << " ", "a" >>, trimmed |-> << "a" >>, clean |-> << "a" >>],
      [text |-> << "b", " ", " ", "c", " " >>,
       trimmed |-> << "b", " ", " ", "c" >>, clean |-> << "b", " ", "c" >>],
      [text |-> <<>>, trimmed |-> <<>>, clean |-> <<>>],
      [text |-> << " " >>, trimmed |-> <<>>, clean |-> <<>>] }

\* The texts of the blocks of an SRT file, with what each reads as
\* trimmed, and as clean (without tags, whitespace runs single spaces,
\* too): a word, a number, leading whitespace and a run, tags over two
\* lines, tags around nothing.
BlockTexts ==
    { [text |-> << "a" >>, trimmed |-> << "a" >>, clean |-> << "a" >>],
      [text |-> << "7" >>, trimmed |-> << "7" >>, clean |-> << "7" >>],
      [text |-> << " ", "b", " ", " ", "c" >>,
       trimmed |-> << "b", " ", " ", "c" >>, clean |-> << "b", " ", "c" >>],
      [text |-> << "<", "i", ">", "d", "<", "/", "i", ">", "\n", "e" >>,
       trimmed |-> << "<", "i", ">", "d", "<", "/", "i", ">", "\n", "e" >>,
       clean |-> << "d", " ", "e" >>],
      [text |-> << "<", "b", ">", "<", "/", "b", ">" >>,
       trimmed |-> << "<", "b", ">", "<", "/", "b", ">" >>, clean |-> <<>>] }

\* Segment k lasts a second and a half, two seconds after the one before;
\* it carries what its text is expected to read as.
SegmentAt(k, sample) ==
    [start |-> (k - 1) * 2000, end |-> (k - 1) * 2000 + 1500,
     text |-> sample.text, trimmed |-> sample.trimmed, clean |-> sample.clean]

\* The lists of up to MaxBlocks segments, in the order of their start.
SegmentLists(samples) ==
    UNION { { [k \in 1..n |-> SegmentAt(k, f[k])] : f \in [1..n -> samples] } :
            n \in 0..MaxBlocks }

\* An SRT file of well-formed blocks: index line, range line, text lines,
\* a blank line between blocks, and `newlines` newlines behind the last.
RECURSIVE WellFormed(_, _, _)
WellFormed(bs, i, newlines) ==
    IF i > Len(bs) THEN <<>>
    ELSE Dec(i) \o <<"\n">> \o format_timestamp(bs[i].start) \o Arrow
         \o format_timestamp(bs[i].end) \o <<"\n">> \o bs[i].text
         \o (IF i < Len(bs) THEN <<"\n", "\n">> ELSE [j \in 1..newlines |-> "\n"])
         \o WellFormed(bs, i + 1, newlines)

SrtInit ==
    /\ PipeIdle
    /\ TimeIdle
    /\ CfgIdle
    /\ caller \in {"pipeline", "script"}
    /\ srt2txt_config \in [extract_text_only : BOOLEAN, combine_sentences : BOOLEAN]
    /\ text_content = <<>>
    /\ output_content = <<>>
    /\ \/ /\ srt_origin = "whisper"
          /\ segments \in SegmentLists(SegmentTexts)
          /\ blocks = <<>>
          /\ trailing = 0
          /\ srt_content = <<>>
          /\ srt_pc = "segments"
       \/ /\ srt_origin = "file"
          /\ segments = <<>>
          /\ blocks \in SegmentLists(BlockTexts)
          /\ trailing \in 0..MaxTrailing
          /\ srt_content = WellFormed(blocks, 1, trailing)
          /\ srt_pc = "file"

\* transcribe_to_srt, from the result of model.transcribe on.
TranscribeToSrt ==
    /\ srt_pc = "segments"
    /\ srt_content' = SrtBlocks(segments, 1)
    /\ srt_pc' = "file"
    /\ UNCHANGED << pipeVars, timeVars, cfgVars, segments, blocks, trailing, srt_origin,
                    caller, srt2txt_config, text_content, output_content >>

\* convert_srt_to_txt, from the reading of the SRT file on.
ConvertSrtToTxt ==
    /\ srt_pc = "file"
    /\ LET extract == ExtractTextOnly(caller, srt2txt_config)
           Write(fragments) ==
               /\ text_content' = fragments
               /\ output_content' =
                    OutputContent(srt_content, fragments, extract,
                                  srt2txt_config.combine_sentences)
       IN  Write(IF extract THEN TextContent(srt_content) ELSE <<>>)
    /\ srt_pc' = "done"
    /\ UNCHANGED << pipeVars, timeVars, cfgVars, segments, blocks, trailing, srt_origin,
                    srt_content, caller, srt2txt_config >>

SrtNext == TranscribeToSrt \/ ConvertSrtToTxt

SpecSrt == SrtInit /\ [][SrtNext]_vars

----------------------------------------------------------------------------
\* config.py

\* The largest number of update_config calls of a process.
MaxUpdates == 2

IsDict(v) == v.kind = "dict"

\* `not user`: None and the empty dictionary are false.
Falsy(v) == v = CfgNone \/ v = CfgDict(<<>>)

\* The sections of DEFAULT_CONFIG (lines 9-50) the model keeps: a section
\* with a subsection, and a section of scalars.
DefaultConfig ==
    CfgDict([processing |->
                CfgDict([srt2txt |->
                            CfgDict([extract_text_only |-> CfgVal("True"),
                                     combine_sentences |-> CfgVal("True")])]),
             ui |-> CfgDict([color_theme |-> CfgVal("default")])])

\* The documents config.yaml may hold: no file, an empty file, an empty
\* mapping, one key of a section, one key of a subsection, a section with
\* nothing under it, an empty section, a new section, a mapping where the
\* defaults hold a scalar, and a document that is no mapping.
UserDocuments ==
    { CfgAbsent, CfgNone, CfgDict(<<>>),
      CfgDict([ui |-> CfgDict([color_theme |-> CfgVal("dark")])]),
      CfgDict([processing |->
                 CfgDict([srt2txt |->
                            CfgDict([extract_text_only |-> CfgVal("False")])])]),
      CfgDict([ui |-> CfgNone]),
      CfgDict([ui |-> CfgDict(<<>>)]),
      CfgDict([extra |-> CfgDict([k |-> CfgVal("v")])]),
      CfgDict([ui |-> CfgDict([color_theme |-> CfgDict([k |-> CfgVal("v")])])]),
      CfgVal("dark") }

\* The value at a key path of a document, CfgAbsent when there is none.
RECURSIVE Lookup(_, _)
Lookup(v, path) ==
    IF path = <<>> THEN v
    ELSE IF IsDict(v) /\ Head(path) \in DOMAIN v.items
    THEN Lookup(v.items[Head(path)], Tail(path))
    ELSE CfgAbsent

\* d[key] = value
SetItem(d, key, value) ==
    CfgDict([k \in DOMAIN d.items \cup {key} |->
                IF k = key THEN value ELSE d.items[k]])

\* The document with the dictionary at a key path assigned an item.
RECURSIVE Put(_, _, _, _)
Put(v, path, key, value) ==
    IF path = <<>> THEN SetItem(v, key, value)
    ELSE SetItem(v, Head(path),
                 Put(v.items[Head(path)], Tail(path), key, value))

\* The key paths of the dictionaries of a document, below a key path.
RECURSIVE DictPaths(_, _)
DictPaths(v, path) ==
    IF IsDict(v)
    THEN {path} \cup UNION { DictPaths(v.items[k], Append(path, k)) :
                             k \in DOMAIN v.items }
    ELSE {}

\* Mutant: the user's value replaces the default's, whatever they are.
RECURSIVE merge_config_Shallow(_, _)
merge_config_Shallow(default, user) ==
    IF Falsy(user) THEN default
    ELSE CfgDict([k \in DOMAIN default.items \cup DOMAIN user.items |->
                    IF k \in DOMAIN user.items THEN user.items[k]
                    ELSE default.items[k]])

\* config.py:68-78, for a user document that is a dictionary or false
RECURSIVE merge_config(_, _)
merge_config(default, user) ==
    IF Falsy(user) THEN default
    ELSE CfgDict([k \in DOMAIN default.items \cup DOMAIN user.items |->
                    IF k \notin DOMAIN user.items THEN default.items[k]
                    ELSE IF /\ k \in DOMAIN default.items
                            /\ IsDict(default.items[k])
                            /\ IsDict(user.items[k])
                    THEN merge_config(default.items[k], user.items[k])
                    ELSE user.items[k]])

\* The key paths at which merge_config(default, user) returns default's own
\* dictionaries: all of them when it returns default (line 70); below the
\* copy of line 72, those of the items it does not assign or merges.
RECURSIVE MergeShares(_, _, _)
MergeShares(default, user, path) ==
    IF Falsy(user) THEN DictPaths(default, path)
    ELSE UNION { IF k \notin DOMAIN user.items
                 THEN DictPaths(default.items[k], Append(path, k))
                 ELSE IF IsDict(default.items[k]) /\ IsDict(user.items[k])
                 THEN MergeShares(default.items[k], user.items[k],
                                  Append(path, k))
                 ELSE {} : k \in DOMAIN default.items }

\* config.py:53-65: the configuration and the paths it shares with the
\* defaults. A document that is not a dictionary raises in merge_config
\* (user.items), which the except clause turns into the defaults.
load_config(file) ==
    IF file = CfgAbsent \/ ~(IsDict(file) \/ Falsy(file))
    THEN [config |-> DefaultConfig, shared |-> DictPaths(DefaultConfig, <<>>)]
    ELSE [config |-> merge_config(DefaultConfig, file),
          shared |-> MergeShares(DefaultConfig, file, <<>>)]

\* config.py:128-151; None for an argument not given, and for the default.
get_config(section, subsection, key) ==
    LET Found(path) ==
            IF \E n \in 1..Len(path) :
                   Lookup(config, SubSeq(path, 1, n)) = CfgAbsent
            THEN CfgNone
            ELSE Lookup(config, path)
    IN  IF section = "None" THEN config
        ELSE IF subsection = "None" THEN Found(<< section >>)
        ELSE IF key = "None" THEN Found(<< section, subsection >>)
        ELSE Found(<< section, subsection, key >>)

\* An assignment d[key] = value to the dictionary at a key path of config:
\* it is made in DEFAULT_CONFIG, too, when the dictionary is shared, and
\* what was below the key is shared no more.
Assign(mem, path, key, value) ==
    LET below == {p \in mem.shared :
                    /\ Len(p) > Len(path)
                    /\ SubSeq(p, 1, Len(path) + 1) = Append(path, key)}
    IN  IF path \in mem.shared
        THEN [config |-> Put(mem.config, path, key, value),
              defaults |-> Put(mem.defaults, path, key, value),
              shared |-> (mem.shared \ below)
                         \cup (IF IsDict(value) THEN {Append(path, key)} ELSE {}),
              ok |-> TRUE]
        ELSE [config |-> Put(mem.config, path, key, value),
              defaults |-> mem.defaults,
              shared |-> mem.shared \ below,
              ok |-> TRUE]

\* config.py:165-177: the assignments update_config makes before it saves;
\* ok is false when one of them raises (an item of what is no dictionary).
UpdateMemory(mem, section, subsection, key, value) ==
    LET Raise(m) == [m EXCEPT !.ok = FALSE]
        Section(m) ==
            IF Lookup(m.config, << section >>) = CfgAbsent
            THEN Assign(m, <<>>, section, CfgDict(<<>>)) ELSE m
        Subsection(m) ==
            IF ~IsDict(Lookup(m.config, << section >>)) THEN Raise(m)
            ELSE IF Lookup(m.config, << section, subsection >>) = CfgAbsent
            THEN Assign(m, << section >>, subsection, CfgDict(<<>>))
            ELSE m
        Key(m) ==
            IF ~m.ok \/ key = "None" THEN m
            ELSE IF ~IsDict(Lookup(m.config, << section, subsection >>))
            THEN Raise(m)
            ELSE Assign(m, << section, subsection >>, key, value)
        SectionKey(m) ==
            IF key = "None" THEN m
            ELSE IF ~IsDict(Lookup(m.config, << section >>)) THEN Raise(m)
            ELSE Assign(m, << section >>, key, value)
    IN  IF subsection # "None" THEN Key(Subsection(Section(mem)))
        ELSE SectionKey(Section(mem))

\* The calls made of get_config (process_srt.py:22, md2docx.py:25, and for
\* a section, a key, and what is not there) and of update_config.
GetCalls ==
    { << "processing", "srt2txt", "None" >>, << "processing", "md2docx", "None" >>,
      << "ui", "None", "None" >>, << "ui", "color_theme", "None" >>,
      << "processing", "srt2txt", "combine_sentences" >> }

UpdateCalls ==
    { << "ui", "None", "color_theme", CfgVal("light") >>,
      << "processing", "srt2txt", "extract_text_only", CfgVal("False") >>,
      << "extra", "None", "None", CfgNone >>,
      << "extra", "sub", "k", CfgVal("v") >>,
      << "ui", "color_theme", "k", CfgVal("v") >>,
      << "ui", "None", "None", CfgNone >> }

CfgInit ==
    /\ PipeIdle
    /\ TimeIdle
    /\ SrtIdle
    /\ DEFAULT_CONFIG = DefaultConfig
    /\ config = CfgAbsent
    /\ shared = {}
    /\ config_file \in UserDocuments
    /\ writable \in BOOLEAN
    /\ call = "none"
    /\ config_before = CfgAbsent
    /\ returned = CfgNone
    /\ updates = 0

\* config.py:81: config = load_config(), at import time
LoadConfig ==
    /\ call = "none"
    /\ config' = load_config(config_file).config
    /\ shared' = load_config(config_file).shared
    /\ call' = "load"
    /\ config_before' = config
    /\ UNCHANGED << pipeVars, timeVars, srtVars, DEFAULT_CONFIG, config_file,
                    writable, returned, updates >>

\* get_config, by a stage of the pipeline or by any other caller
GetConfig ==
    /\ call # "none"
    /\ \E args \in GetCalls :
         returned' = get_config(args[1], args[2], args[3])
    /\ call' = "get"
    /\ config_before' = config
    /\ UNCHANGED << pipeVars, timeVars, srtVars, DEFAULT_CONFIG, config,
                    shared, config_file, writable, updates >>

\* config.py:164-181: update_config, with save_config (154-161): the file
\* holds what yaml.safe_dump writes of config, when it can be opened.
UpdateConfig ==
    /\ call # "none"
    /\ updates < MaxUpdates
    /\ updates' = updates + 1
    /\ call' = "update"
    /\ config_before' = config
    /\ \E args \in UpdateCalls :
         LET Done(mem) ==
                 /\ config' = mem.config
                 /\ DEFAULT_CONFIG' = mem.defaults
                 /\ shared' = mem.shared
                 /\ IF mem.ok /\ writable
                    THEN config_file' = mem.config /\ returned' = CfgVal("True")
                    ELSE UNCHANGED config_file /\ returned' = CfgVal("False")
         IN  Done(UpdateMemory([config |-> config, defaults |-> DEFAULT_CONFIG,
                                shared |-> shared, ok |-> TRUE],
                               args[1], args[2], args[3], args[4]))
    /\ UNCHANGED << pipeVars, timeVars, srtVars, writable >>

CfgNext == LoadConfig \/ GetConfig \/ UpdateConfig

SpecConfig == CfgInit /\ [][CfgNext]_vars

----------------------------------------------------------------------------
\* Properties of format_timestamp

Formatted == stamp # <<>>

\* The field of `width` characters that ends `back` characters before the
\* end of the stamp.
Field(back, width) ==
    SubSeq(stamp, Len(stamp) - back - width + 1, Len(stamp) - back)

\* The characters before the first colon.
HoursField == SubSeq(stamp, 1, Len(stamp) - 10)

\* C14 as stated: for a whole number t of milliseconds the stamp is
\* HH:MM:SS,mmm with HH = floor(t / 3600000), MM = floor(t / 60000) mod 60,
\* SS = floor(t / 1000) mod 60 and mmm = t mod 1000.
C14_FieldsOfWholeMilliseconds ==
    Formatted =>
        stamp = Pad(seconds \div 3600000, 2) \o <<":">>
                \o Pad((seconds \div 60000) % 60, 2) \o <<":">>
                \o Pad((seconds \div 1000) % 60, 2) \o <<",">>
                \o Pad(seconds % 1000, 3)

\* C14 amended: HH, MM and SS are as stated; mmm is the truncated product
\* of the double (seconds % 1) by 1000, which is t mod 1000 or, when the
\* double nearest to t / 1000 lies below it, one less; it never exceeds
\* t mod 1000, is 0 on whole seconds, and 3661.5 s gives 01:01:01,500.
C14_FieldsTruncated ==
    Formatted =>
        /\ HoursField = Pad(seconds \div 3600000, 2)
        /\ Field(7, 2) = Pad((seconds \div 60000) % 60, 2)
        /\ Field(4, 2) = Pad((seconds \div 1000) % 60, 2)
        /\ \/ Field(0, 3) = Pad(seconds % 1000, 3)
           \/ /\ seconds % 1000 > 0
              /\ Field(0, 3) = Pad((seconds % 1000) - 1, 3)
        /\ seconds < 1000 => Field(0, 3) = Pad(seconds, 3)
        /\ seconds = 3661500 =>
             stamp = << "0", "1", ":", "0", "1", ":", "0", "1", ",",
                        "5", "0", "0" >>
        /\ seconds = 1001 =>
             stamp = << "0", "0", ":", "0", "0", ":", "0", "1", ",",
                        "0", "0", "0" >>

\* A stamp whose milliseconds were truncated below t mod 1000, and one
\* past the first hour whose fields are all exact.
C14_Witness ==
    /\ Formatted
    /\ \/ seconds = 1001
       \/ seconds = 3661500

\* C15 as stated: the stamp always has exactly 12 characters, also at 100
\* hours and more.
C15_AlwaysTwelveCharacters == Formatted => Len(stamp) = 12

\* C15 amended: the minutes, seconds and milliseconds fields always have 2,
\* 2 and 3 digits behind their separators; the hours field has 2 digits
\* below 100 hours, where the stamp has exactly 12 characters, and 3 or
\* more digits from 100 hours on, where the stamp is longer.
C15_TwelveCharactersBelowHundredHours ==
    Formatted =>
        /\ stamp[Len(stamp) - 3] = ","
        /\ stamp[Len(stamp) - 6] = ":"
        /\ stamp[Len(stamp) - 9] = ":"
        /\ \A i \in 1..Len(stamp) :
             i \notin {Len(stamp) - 3, Len(stamp) - 6, Len(stamp) - 9}
                => stamp[i] \in Range(Digits)
        /\ Len(stamp) = 12 <=> seconds < 360000000
        /\ Len(stamp) >= 12

\* Stamps on both sides of 100 hours.
C15_Witness ==
    /\ Formatted
    /\ \/ seconds = 359999999
       \/ seconds = 360000000

----------------------------------------------------------------------------
\* Properties of the SRT writer and of the extractor

\* The extraction was made in text-only mode.
TextMode == srt_pc = "done" /\ ExtractTextOnly(caller, srt2txt_config)

\* What the blocks (or segments) are expected to read as, the empty
\* readings left out.
ExpectedFragments(bs) ==
    SelectSeq([k \in 1..Len(bs) |-> bs[k].clean], LAMBDA t : t # <<>>)

\* The lines of a text: the characters between its newlines.
Lines(s) ==
    LET Split(nl) ==
            LET Nth(k) ==
                    IF k = 0 THEN 0
                    ELSE IF k > Cardinality(nl) THEN Len(s) + 1
                    ELSE CHOOSE i \in nl : Cardinality({j \in nl : j <= i}) = k
            IN  [k \in 1..(Cardinality(nl) + 1) |->
                    SubSeq(s, Nth(k - 1) + 1, Nth(k) - 1)]
    IN  Split({i \in 1..Len(s) : s[i] = "\n"})

\* A fragment as the extractor is to leave it: no tag, no whitespace but
\* single spaces between other characters.
IsClean(t) ==
    /\ t # <<>>
    /\ ~IsWs(t[1]) /\ ~IsWs(t[Len(t)])
    /\ \A i \in 1..Len(t) : IsWs(t[i]) => t[i] = " " /\ ~IsWs(t[i + 1])
    /\ \A i \in 1..Len(t) : \A j \in (i + 2)..Len(t) :
         ~(t[i] = "<" /\ t[j] = ">")

\* C11 as stated: text-only extraction of an SRT file of N well-formed
\* blocks yields exactly N non-empty fragments, fragment k being the text
\* of block k without tags, whitespace runs collapsed, trimmed.
C11_OneFragmentPerBlock ==
    (TextMode /\ srt_origin = "file") =>
        /\ Len(text_content) = Len(blocks)
        /\ \A k \in 1..Len(blocks) :
             text_content[k] = blocks[k].clean /\ text_content[k] # <<>>

\* C11 amended: the fragments are, in block order, the texts of the blocks
\* without tags, whitespace runs collapsed and trimmed, of those blocks
\* whose text is not empty then; a block whose text is only tags yields no
\* fragment, so there are N fragments when every block has text besides
\* its tags, and fewer otherwise.
C11_OneFragmentPerBlockWithText ==
    (TextMode /\ srt_origin = "file") =>
        /\ text_content = ExpectedFragments(blocks)
        /\ \A k \in 1..Len(text_content) : IsClean(text_content[k])
        /\ Len(text_content) =
             Cardinality({k \in 1..Len(blocks) : blocks[k].clean # <<>>})
        /\ (\A k \in 1..Len(blocks) : blocks[k].clean # <<>>)
              => Len(text_content) = Len(blocks)

\* A file with a block of tagged text and a block of tags only, extracted.
C11_Witness ==
    /\ TextMode /\ srt_origin = "file"
    /\ \E k \in 1..Len(blocks) :
         blocks[k].clean = <<>> /\ blocks[k].text # <<>>
    /\ \E k \in 1..Len(blocks) :
         blocks[k].clean # <<>> /\ blocks[k].clean # blocks[k].text
    /\ Len(text_content) = Len(blocks) - 1

\* C12: the text of the last block is captured up to the end of the input,
\* with no, one or several newlines behind it: it is the last fragment,
\* and it is the fragment the same text gives in the block before it.
C12_LastBlockCapturedToEndOfInput ==
    (/\ TextMode /\ srt_origin = "file"
     /\ blocks # <<>>
     /\ blocks[Len(blocks)].clean # <<>>) =>
        /\ text_content # <<>>
        /\ text_content[Len(text_content)] = blocks[Len(blocks)].clean
        /\ (/\ Len(blocks) > 1
            /\ blocks[Len(blocks) - 1].text = blocks[Len(blocks)].text)
              => /\ Len(text_content) > 1
                 /\ text_content[Len(text_content) - 1] = text_content[Len(text_content)]

\* A file that ends with the last character of its last block's text,
\* which is the text of the block before, too.
C12_Witness ==
    /\ TextMode /\ srt_origin = "file"
    /\ trailing = 0
    /\ Len(blocks) > 1
    /\ blocks[Len(blocks)].clean # <<>>
    /\ blocks[Len(blocks) - 1].text = blocks[Len(blocks)].text
    /\ text_content[Len(text_content)] = blocks[Len(blocks)].clean
    /\ srt_content[Len(srt_content)] # "\n"

\* C13 as stated: when the pipeline's srt2txt stage extracts, the
\* configuration selects the mode: extract_text_only false gives the SRT
\* content verbatim, true gives the text only; combine_sentences true joins
\* the fragments by single spaces, false writes them one per line.
C13_ConfigSelectsOutputMode ==
    (srt_pc = "done" /\ caller = "pipeline") =>
        IF srt2txt_config.extract_text_only
        THEN output_content =
               JoinText(IF srt2txt_config.combine_sentences
                        THEN <<" ">> ELSE <<"\n">>, text_content)
        ELSE output_content = srt_content

C19_RoundTrip ==
    (TextMode /\ srt_origin = "whisper") =>
        /\ text_content = ExpectedFragments(segments)
        /\ \A i \in 1..Len(output_content) : RangeAt(output_content, i) = 0

----------------------------------------------------------------------------
\* Properties of config.py

CfgKeys ==
    { "processing", "srt2txt", "extract_text_only", "combine_sentences",
      "ui", "color_theme", "extra", "k" }

\* The key paths, to the depth of the documents.
KeyPaths == UNION { [1..n -> CfgKeys] : n \in 1..3 }

\* A user document was merged over the defaults at import time.
Merged == call = "load" /\ IsDict(config_file)

\* C17 as stated: for every key path, the merged configuration holds the
\* user's value where the user document defines the path, and the default
\* value otherwise (a dictionary where that one holds a dictionary).
C17_UserValueElseDefault ==
    Merged =>
        \A p \in KeyPaths :
            LET user    == Lookup(config_file, p)
                default == Lookup(DefaultConfig, p)
                merged  == Lookup(config, p)
            IN  IF user # CfgAbsent
                THEN IF IsDict(user) THEN IsDict(merged) ELSE merged = user
                ELSE IF IsDict(default) THEN IsDict(merged)
                ELSE merged = default

\* C17 amended: for every key path, the merged configuration holds the
\* user's value where the user document defines the path; where it does
\* not, it holds the default value, unless the user document puts a value
\* that is no dictionary (a scalar or nothing) on the way to the path:
\* that value replaces the default's section and the path does not exist.
C17_UserValueElseDefaultUnlessReplaced ==
    Merged =>
        \A p \in KeyPaths :
            LET user     == Lookup(config_file, p)
                default  == Lookup(DefaultConfig, p)
                merged   == Lookup(config, p)
                replaced == \E n \in 1..(Len(p) - 1) :
                               /\ Lookup(config_file, SubSeq(p, 1, n)) # CfgAbsent
                               /\ ~IsDict(Lookup(config_file, SubSeq(p, 1, n)))
            IN  IF user # CfgAbsent
                THEN IF IsDict(user) THEN IsDict(merged) ELSE merged = user
                ELSE IF replaced THEN merged = CfgAbsent
                ELSE IF IsDict(default) THEN IsDict(merged)
                ELSE merged = default

\* A user document that sets one key of a subsection was merged: the key
\* holds the user's value, the subsection's other key its default.
C17_Witness ==
    /\ Merged
    /\ Lookup(config_file, << "processing", "srt2txt" >>) # CfgAbsent
    /\ Lookup(config_file, << "processing", "srt2txt", "combine_sentences" >>)
         = CfgAbsent
    /\ Lookup(config, << "processing", "srt2txt", "extract_text_only" >>)
         = CfgVal("False")
    /\ Lookup(config, << "processing", "srt2txt", "combine_sentences" >>)
         = CfgVal("True")

\* C18 as stated: after load, get_config calls leave the configuration as
\* it is, every update_config call that changes it also persists it, and
\* after a call that returned True the file equals the configuration.
C18_ConfigChangedOnlyByPersistedUpdates ==
    /\ call = "get" => config = config_before
    /\ (call = "update" /\ config # config_before) => config_file = config
    /\ (call = "update" /\ returned = CfgVal("True")) => config_file = config

\* C21 as stated: DEFAULT_CONFIG and all of its sections hold their
\* original values after any sequence of load_config and update_config
\* calls, whatever config.yaml holds and whether it exists.
C21_DefaultsNeverModified == DEFAULT_CONFIG = DefaultConfig

\* C22 as stated: an update_config call that returned False left the
\* configuration in memory as it was before the call, and after a call
\* that returned True the configuration in memory is what the file holds.
C22_UpdateAllOrNothing ==
    call = "update" =>
        /\ returned = CfgVal("False") => config = config_before
        /\ returned = CfgVal("True") => config = config_file

----------------------------------------------------------------------------
\* Properties of the output paths of the pipeline's stages

\* A path lies in a directory or below it, once it is normalised.
Inside(p, dir) ==
    LET dirs == Norm(p).dirs
    IN  Len(dirs) >= Len(dir) /\ SubSeq(dirs, 1, Len(dir)) = dir

\* A path lies in the output directory where its source lies under the
\* input directory; any place inside the output directory will do for a
\* source that is not under the input directory.
Remapped(p, source) ==
    /\ Inside(p, output_dir)
    /\ (input_path.isdir /\ Inside(source, InputDir)) =>
           Norm(p).dirs = output_dir
                \o SubSeq(Norm(source).dirs, Len(InputDir) + 1,
                          Len(Norm(source).dirs))

\* C20 as stated: with an output directory, the Markdown path computed for
\* every TXT file that was summarized and the DOCX path computed for every
\* Markdown file of the stage's list lie inside the output directory, at
\* the source's place below the input directory.
C20_OutputsInsideOutputDir ==
    output_dir # <<>> =>
        /\ \A i \in Events({"write_md"}) : Remapped(log[i].dst, log[i].src)
        /\ pc = "docx" => Remapped(DocxPath(md_files[idx]), md_files[idx])

====
